---- MODULE Spec2Model ----
(***************************************************************************)
(* Collision, physics-integration and damage/destruction engine of the     *)
(* Medieval Siege Simulator (src/js).                                      *)
(*                                                                         *)
(* Quantities are fixed point: lengths in centimetres, velocities in       *)
(* centimetres per second, health and damage in tenths of a health point,  *)
(* timer delays in microseconds.  The world is cut along the vertical      *)
(* plane of the shot: x is the horizontal coordinate, y the height.        *)
(*                                                                         *)
(* JavaScript runs one task at a time: an animation frame, a timer         *)
(* callback, a mouse handler or the continuation of an `await` runs to     *)
(* its end (or to its next await on a pending promise) before anything     *)
(* else runs.                                                              *)
(***************************************************************************)
EXTENDS Integers, Sequences, FiniteSets, Bags, TLC

\* ------------------------------------------------------------------ bounds
MaxMouseDowns == 1      \* left-button presses (drags) the user makes
MaxArms == 1            \* right-button presses (arm/disarm) the user makes
MaxTicks == 3           \* frames with a shot in the air, when the user acts
MaxHealthSteps == 4     \* applyDamage is checked on health 0, 50, .. points
MaxDamageSteps == 6     \* and on damage 0, 43.3, .. points
MaxDistance == 9        \* explosionDamage is checked up to this many metres
MaxTints == 3           \* tints applied by hits and explosions
MaxClock == 200         \* getBoundingBox is called for this many milliseconds
MaxBeyond == 1          \* isOutOfBounds is checked up to this many units
                        \* beyond each edge

\* --------------------------------------------------------------- constants
None == "none"
Projectiles == <<"p1", "p2">>   \* in scene-traversal order
Barrels == {"b1", "b2"}
Entities == <<"ground", "st", "b1", "b2">>   \* in scene-traversal order
EntitySet == {Entities[i] : i \in 1..Len(Entities)}
ProjectileSet == {Projectiles[i] : i \in 1..Len(Projectiles)}

EntityType(e) ==
  CASE e = "ground" -> "ground"
    [] e = "st" -> "siegeTower"
    [] OTHER -> "barrel"

\* userData.draggable of the entity
Draggable(e) == EntityType(e) \in {"barrel", "siegeTower", "stone", "arrows"}

\* The scene: where the entities stand.  The barrels are created at random
\* places and every draggable object can be put anywhere; the two scenes
\* modelled have the barrels 5 m apart (spread) or side by side (close).
VARIABLE layout

Layouts == {"spread", "close"}

EntityPos(e) ==
  CASE e = "ground" -> [x |-> 0, y |-> 0]
    [] e = "st" -> [x |-> 1400, y |-> 0]
    [] e = "b1" -> [x |-> 2000, y |-> 100]
    [] OTHER -> IF layout = "close" THEN [x |-> 2165, y |-> 100]
                ELSE [x |-> 2500, y |-> 100]

\* --------------------------------------------------------------- arithmetic
Abs(n) == IF n < 0 THEN -n ELSE n
Min(a, b) == IF a < b THEN a ELSE b
Max(a, b) == IF a > b THEN a ELSE b

RECURSIVE SqrtSearch(_, _, _)
SqrtSearch(n, lo, hi) ==
  IF lo >= hi THEN lo
  ELSE LET mid == (lo + hi + 1) \div 2
       IN IF mid * mid <= n THEN SqrtSearch(n, mid, hi)
          ELSE SqrtSearch(n, lo, mid - 1)

\* floor of the square root
ISqrt(n) == SqrtSearch(n, 0, 46340)

\* squared distance of two points, THREE.Vector3.distanceTo before the root
Dist2(a, b) == (a.x - b.x) * (a.x - b.x) + (a.y - b.y) * (a.y - b.y)

\* velocity.length(), cm/s
Speed(v) == ISqrt(v.vx * v.vx + v.vy * v.vy)

\* ------------------------------------------------------------ damage tables
\* CollisionManager.getBaseHealth, tenths of a point
GetBaseHealth(targetType) ==
  CASE targetType = "wall" -> 2000
    [] targetType = "tower" -> 2000
    [] targetType = "siegeTower" -> 2000
    [] targetType = "barrel" -> 1000
    [] OTHER -> 3000

\* DamageHandler.getBaseHealthForExplosion, tenths of a point
GetBaseHealthForExplosion(targetType) ==
  CASE targetType = "wall" -> 2000
    [] targetType = "tower" -> 2000
    [] targetType = "siegeTower" -> 2000
    [] targetType = "barrel" -> 500
    [] OTHER -> 1000

\* CollisionManager.getTargetResistance, in tenths (0.3 is 3)
GetTargetResistance(targetType) ==
  CASE targetType = "wall" -> 3
    [] targetType = "tower" -> 4
    [] targetType = "siegeTower" -> 2
    [] targetType = "barrel" -> 0
    [] OTHER -> 0

\* CollisionDetector.getCollisionRadius, cm
GetCollisionRadius(targetType) ==
  CASE targetType = "barrel" -> 100
    [] targetType = "wall" -> 200
    [] targetType = "tower" -> 300
    [] targetType = "siegeTower" -> 250
    [] targetType = "ground" -> 50
    [] OTHER -> 100

\* The health fields of userData.  hasHealth = FALSE is health === undefined.
HealthFields == {"hasHealth", "health", "hasMaxHealth", "maxHealth"}

\* JavaScript `!userData.health`: undefined and 0 are both falsy.
HealthIsFalsy(t) == ~t.hasHealth \/ t.health = 0

\* CollisionManager.initializeTargetHealth
InitializeTargetHealth(t, targetType) ==
  [t EXCEPT !.hasHealth = TRUE, !.health = GetBaseHealth(targetType),
            !.hasMaxHealth = TRUE, !.maxHealth = GetBaseHealth(targetType)]

\* damage * (1 - resistance), tenths of a point
ActualDamage(targetType, damage) ==
  (damage * (10 - GetTargetResistance(targetType))) \div 10

\* applyDamage without its Math.max(0, ...)
ApplyDamageUnclamped(t, targetType, damage) ==
  LET t1 == IF HealthIsFalsy(t) THEN InitializeTargetHealth(t, targetType) ELSE t
  IN [t1 EXCEPT !.health = t1.health - ActualDamage(targetType, damage)]

\* CollisionManager.applyDamage: the target after the call; the value
\* returned is ActualDamage(targetType, damage).
ApplyDamage(t, targetType, damage) ==
  LET t1 == IF HealthIsFalsy(t) THEN InitializeTargetHealth(t, targetType) ELSE t
  IN [t1 EXCEPT !.health = Max(0, t1.health - ActualDamage(targetType, damage))]

\* CollisionManager.handleTargetCollision/calculateDamage: impactForce is
\* min(speed / 10, 3.0) and the damage 50 * impactForce^1.5, here
\* floor(sqrt(s^3 / 4)) tenths for a speed of s dm/s, s capped at 300.
CalculateDamage(speed) ==
  LET s == Min(speed \div 10, 300)
  IN ISqrt((s * s * s) \div 4)

RECURSIVE Gcd(_, _)
Gcd(a, b) == IF b = 0 THEN a ELSE Gcd(b, a % b)

\* the damage rounded up to whole points
ExplosionDamageCeil(d2, radius, maxDamage) ==
  LET g == Gcd(maxDamage, radius)
      m == maxDamage \div g
      r == radius \div g
  IN 10 * (maxDamage - ISqrt((m * m * d2) \div (r * r)))

\* DamageHandler.explosionDamage, the damage at the squared distance d2
\* (cm^2) below the squared radius (radius in cm, maxDamage in points):
\* Math.floor(maxDamage * (1 - distance / radius)) points, in tenths of a
\* point.  It is maxDamage - k for the least whole k >= maxDamage *
\* distance / radius, and k >= m * d / r iff r^2 k^2 >= m^2 d2.
ExplosionDamageFor(d2, radius, maxDamage) ==
  LET g == Gcd(maxDamage, radius)
      m == maxDamage \div g
      r == radius \div g
      q == m * m * d2
      k0 == ISqrt(q \div (r * r))
      k == IF r * r * k0 * k0 >= q THEN k0 ELSE k0 + 1
  IN 10 * (maxDamage - k)

\* ... with radius 8 m and maxDamage 150, as handleChainReaction passes them
ExplosionDamageAmount(d2) == ExplosionDamageFor(d2, 800, 150)

\* One target's pass through the loop body of DamageHandler.explosionDamage:
\* the target after it.  d2 is the squared distance to the centre.
ExplosionDamageTarget(t, targetType, d2, radius, maxDamage) ==
  IF d2 < radius * radius /\ targetType # "ground"
  THEN LET base == GetBaseHealthForExplosion(targetType)
           t1 == IF ~t.hasHealth
                 THEN [t EXCEPT !.hasMaxHealth = TRUE, !.maxHealth = base,
                                !.hasHealth = TRUE, !.health = base]
                 ELSE t
           t2 == IF ~t1.hasMaxHealth /\ t1.hasHealth
                 THEN [t1 EXCEPT !.hasMaxHealth = TRUE,
                                 !.maxHealth = Max(t1.health, base)]
                 ELSE t1
       IN [t2 EXCEPT !.health =
             Max(0, t2.health - ExplosionDamageFor(d2, radius, maxDamage))]
  ELSE t

ExplosionDamageOne(t, targetType, d2) ==
  ExplosionDamageTarget(t, targetType, d2, 800, 150)

\* the verdict explosionDamage pushes for the target: destroyed
ExplosionVerdict(t, targetType, d2, radius, maxDamage) ==
  /\ d2 < radius * radius
  /\ targetType # "ground"
  /\ ExplosionDamageTarget(t, targetType, d2, radius, maxDamage).health <= 0

ExplosionDestroys(t, targetType, d2) ==
  ExplosionVerdict(t, targetType, d2, 800, 150)

\* -------------------------------------------------------------------- state
VARIABLES
  frameSteps,  \* history: the simulation steps the last frame ran, in order
  proj,        \* projectile -> its position, velocity and userData
  ent,         \* entity -> scene membership and userData
  selectedObject,  \* MedievalSiegeSimulator.selectedObject
  mouseIsDown,     \* MedievalSiegeSimulator.isDragging
  ammoBarrels,     \* Ammunition.barrels
  microtasks,  \* continuations of awaits on settled promises, FIFO
  tasks,       \* bag of pending timers and pending sound promises
  log,         \* history of what the handlers did, read by the properties
  mouseDowns,  \* left-button presses made so far
  arms,        \* right-button presses made so far
  ticks,       \* frames run so far with a projectile in the air
  effects,     \* whether the calls into the EffectsManager work or throw
  detector,    \* CollisionDetector: the clock, the box cache, the last return
  paint,       \* materials: which mesh uses which, their colours, the resets
  fnIn,        \* pure-function check: the drawn input
  fnOut        \* pure-function check: the result, once computed

worldVars == <<layout, effects, paint, detector, frameSteps, proj, ent, selectedObject, mouseIsDown,
               ammoBarrels, microtasks, tasks, log, mouseDowns, arms, ticks>>
fnVars == <<fnIn, fnOut>>
vars == <<layout, effects, paint, detector, frameSteps, proj, ent, selectedObject, mouseIsDown,
          ammoBarrels, microtasks, tasks, log, mouseDowns, arms, ticks,
          fnIn, fnOut>>

\* The part of the state the handlers read and write, passed through them.
World ==
  [proj |-> proj, ent |-> ent, sel |-> selectedObject, ammo |-> ammoBarrels,
   micro |-> microtasks, tasks |-> tasks, log |-> log]

Commit(W) ==
  /\ proj' = W.proj
  /\ ent' = W.ent
  /\ selectedObject' = W.sel
  /\ ammoBarrels' = W.ammo
  /\ microtasks' = W.micro
  /\ tasks' = W.tasks
  /\ log' = W.log

\* a pending timer or sound promise
Task(kind, e, p, d) == [k |-> kind, e |-> e, p |-> p, d |-> d]
AddTask(W, t) == [W EXCEPT !.tasks = W.tasks (+) SetToBag({t})]

\* ---------------------------------------------------------------- Integrator
\* the projectile as catapult.js releases it, power in cm/s at 45 degrees
Release(x0, y0, power) ==
  [x |-> x0, y |-> y0, vx |-> (power * 7071) \div 10000,
   vy |-> (power * 7071) \div 10000, bounces |-> 0, active |-> TRUE,
   hasCollided |-> FALSE, inScene |-> TRUE]

\* the projectile is one PhysicsEngine.update moves
IsFlying(q) == q.inScene /\ q.active /\ ~q.hasCollided

\* PhysicsEngine.update for one projectile, deltaTime = 1/30 s
PhysicsStep(q) ==
  LET vy1 == q.vy + ((-981) \div 30)
      x1 == q.x + (q.vx \div 30)
      y1 == q.y + (vy1 \div 30)
  IN IF y1 <= 30
     THEN IF q.vx * q.vx + vy1 * vy1 > 100 * 100 /\ q.bounces < 3
          THEN [q EXCEPT !.x = x1, !.y = 30, !.vy = Abs(vy1) \div 2,
                         !.vx = (q.vx * 7) \div 10, !.bounces = q.bounces + 1]
          ELSE [q EXCEPT !.x = x1, !.y = 30, !.vx = 0, !.vy = 0,
                         !.active = FALSE, !.hasCollided = TRUE]
     ELSE [q EXCEPT !.x = x1, !.y = y1, !.vy = vy1]

RECURSIVE Advance(_, _)
\* the projectile after n frames of free flight
Advance(q, n) == IF n = 0 \/ ~IsFlying(q) THEN q ELSE Advance(PhysicsStep(q), n - 1)

\* --------------------------------------------------------- CollisionManager
\* A synchronous call into the EffectsManager (createDamageParticles,
\* animateDebris) throws.  Its async methods and Utils.playSound cannot
\* throw into their caller: a failure inside them is a rejected promise
\* nobody awaits, or is caught and logged.
Throws == effects = "failing"

\* deactivateProjectile setting the flags alone
DeactivateProjectileNoTimer(W, p) ==
  [W EXCEPT !.proj[p].active = FALSE, !.proj[p].hasCollided = TRUE]

\* CollisionManager.deactivateProjectile: the flags, and the removal timer
\* of 100 ms (timer delays are in microseconds)
DeactivateProjectile(W, p) ==
  AddTask([W EXCEPT !.proj[p].active = FALSE, !.proj[p].hasCollided = TRUE],
          Task("removeProjectile", None, p, 100000))

\* the collision pass blind to the drag
NeverDragging(W, e) == FALSE

\* target.mesh.userData?.isDragging, as the collision pass reads it
IsDraggingTarget(W, e) == W.ent[e].isDragging

\* CollisionManager.triggerBarrelExplosion up to its await: the guards, the
\* flags, the call of handleChainReaction (which stops at its own await of
\* the chain-reaction sound) and the request of the explosion sound.
TriggerBarrelExplosion(W, b) ==
  IF ~W.ent[b].inScene \/ W.ent[b].isDragging
  THEN W
  ELSE LET W1 == [W EXCEPT !.ent[b].isExploding = TRUE,
                           !.ent[b].explosive = TRUE,
                           !.log.trig[b] = W.log.trig[b] + 1]
       IN AddTask(AddTask(W1, Task("chainSound", b, None, 0)),
                  Task("explosionSound", b, None, 0))

\* CollisionManager.handleImpactEffects: a barrel is detonated; the effects
\* and sounds of the other types are requested and not awaited.
HandleImpactEffects(W, e) ==
  IF EntityType(e) = "barrel" THEN TriggerBarrelExplosion(W, e) ELSE W

\* CollisionManager.handleTargetCollision up to `await handleImpactEffects`;
\* the rest runs as a microtask (HitContinuation).
HandleTargetCollision(W, p, e) ==
  IF W.proj[p].hasCollided \/ IsDraggingTarget(W, e)
  THEN W
  ELSE LET damage == CalculateDamage(Speed(W.proj[p]))
           W1 == [W EXCEPT
                    !.ent[e] = ApplyDamage(W.ent[e], EntityType(e), damage),
                    !.log.hits = W.log.hits \cup
                       {[p |-> p, e |-> e, via |-> "manager",
                         exploding |-> W.ent[e].isExploding]},
                    !.log.hitCount[p] = W.log.hitCount[p] + 1]
           W2 == HandleImpactEffects(W1, e)
       IN [W2 EXCEPT !.micro = Append(W2.micro, Task("hitCont", e, p, 0))]

\* CollisionManager.checkGroundCollision: radius 0.4 m, threshold
\* max(1.5 * radius, 0.5)
CheckGroundCollision(q) == q.y <= Max((40 * 15) \div 10, 50)

\* handleGroundCollision taking the contact after the second bounce for the
\* final one
HandleGroundCollisionEarly(W, p) ==
  IF W.proj[p].hasCollided THEN W
  ELSE IF W.proj[p].bounces >= 2
  THEN LET W1 == DeactivateProjectile(W, p)
       IN [W1 EXCEPT !.log.groundStops[p] = W.log.groundStops[p] + 1]
  ELSE W

\* CollisionManager.handleGroundCollision: dust, crater and sound have no
\* effect on the state; the terminal contact deactivates the projectile.
\* (With bounces >= 3 the volume is at most 0.075, so no sound is awaited
\* before the deactivation.)
HandleGroundCollision(W, p) ==
  IF W.proj[p].hasCollided THEN W
  ELSE IF W.proj[p].bounces >= 3
  THEN LET W1 == DeactivateProjectile(W, p)
       IN [W1 EXCEPT !.log.groundStops[p] = W.log.groundStops[p] + 1]
  ELSE W

\* CollisionDetector.checkProjectileTargetCollision, the sphere test (the
\* scene modelled holds no wall or tower, whose test is the box test)
CheckProjectileTargetCollision(q, e) ==
  LET projectileRadius == Min((4 * Speed(q)) \div 100, 60)
      totalRadius == GetCollisionRadius(EntityType(e)) + projectileRadius
  IN Dist2(q, EntityPos(e)) <= totalRadius * totalRadius

\* A JavaScript number: a finite value v, or (nan) NaN or an infinity, which
\* Validation.isValidNumber rejects alike.
Num(v) == [nan |-> FALSE, v |-> v]
NaN == [nan |-> TRUE, v |-> 0]

\* Validation.sanitizeNumber
SanitizeNumber(n, defaultValue) == IF n.nan THEN defaultValue ELSE n.v

\* Validation.sanitizeVector3 with its default vector (0, 0, 0)
SanitizeVector3(vector) ==
  [x |-> SanitizeNumber(vector.x, 0), y |-> SanitizeNumber(vector.y, 0),
   z |-> SanitizeNumber(vector.z, 0)]

\* the bounds isOutOfBounds falls back to, cm
DefaultBounds ==
  [x |-> [min |-> -5000, max |-> 5000], y |-> [min |-> -1000, max |-> 10000],
   z |-> [min |-> -5000, max |-> 5000]]

\* the bounds checkCollisions passes, cm
WorldBounds ==
  [x |-> [min |-> -10000, max |-> 10000], y |-> [min |-> -1000, max |-> 10000],
   z |-> [min |-> -10000, max |-> 10000]]

\* The optional argument `bounds`: a box given, or (NoBounds) null
GivenBounds(box) == [given |-> TRUE, box |-> box]
NoBounds ==
  [given |-> FALSE,
   box |-> [x |-> [min |-> 0, max |-> 0], y |-> [min |-> 0, max |-> 0],
            z |-> [min |-> 0, max |-> 0]]]

\* isOutOfBounds taking a position on an edge for one outside
IsOutOfBoundsInclusive(position, bounds) ==
  LET pos == SanitizeVector3(position)
      activeBounds == IF bounds.given THEN bounds.box ELSE DefaultBounds
  IN \/ pos.x <= activeBounds.x.min \/ pos.x >= activeBounds.x.max
     \/ pos.y <= activeBounds.y.min \/ pos.y >= activeBounds.y.max
     \/ pos.z <= activeBounds.z.min \/ pos.z >= activeBounds.z.max

\* CollisionDetector.isOutOfBounds(position, bounds): `bounds ||
\* defaultBounds`, then the strict comparisons
IsOutOfBoundsAt(position, bounds) ==
  LET pos == SanitizeVector3(position)
      activeBounds == IF bounds.given THEN bounds.box ELSE DefaultBounds
  IN \/ pos.x < activeBounds.x.min \/ pos.x > activeBounds.x.max
     \/ pos.y < activeBounds.y.min \/ pos.y > activeBounds.y.max
     \/ pos.z < activeBounds.z.min \/ pos.z > activeBounds.z.max

\* CollisionDetector.isOutOfBounds as checkCollisions calls it on the
\* projectile (which flies in the plane z = 0)
IsOutOfBounds(q) ==
  IsOutOfBoundsAt([x |-> Num(q.x), y |-> Num(q.y), z |-> Num(0)],
                  GivenBounds(WorldBounds))

\* the first target of the list the projectile is resolved against, or None
RECURSIVE FirstTarget(_, _, _)
FirstTarget(W, p, targets) ==
  IF targets = <<>> THEN None
  ELSE IF /\ ~IsDraggingTarget(W, Head(targets))
          /\ CheckProjectileTargetCollision(W.proj[p], Head(targets))
       THEN Head(targets)
       ELSE FirstTarget(W, p, Tail(targets))

\* history: the dragged targets the loop passed over although the
\* projectile overlaps them (the loop ends at the first hit)
SkippedTargets(W, p, targets) ==
  {targets[i] : i \in
     {k \in 1..Len(targets) :
        /\ IsDraggingTarget(W, targets[k])
        /\ CheckProjectileTargetCollision(W.proj[p], targets[k])
        /\ \A j \in 1..(k - 1) :
             \/ IsDraggingTarget(W, targets[j])
             \/ ~CheckProjectileTargetCollision(W.proj[p], targets[j])}}

\* CollisionManager.isValidProjectile
IsValidProjectile(q) == ~q.hasCollided

\* the body of checkCollisions' loop over the projectiles: the ground check
\* ends it, then the first target hit ends it, then the bounds are checked
\* (log.lowOutside: the projectiles the ground check took while they were
\* outside the bounds)
CheckProjectile(W, p, targets) ==
  IF ~IsValidProjectile(W.proj[p]) THEN W
  ELSE IF CheckGroundCollision(W.proj[p])
  THEN HandleGroundCollision(
         [W EXCEPT !.log.lowOutside = W.log.lowOutside \cup
            (IF IsOutOfBounds(W.proj[p]) THEN {p} ELSE {})], p)
  ELSE LET hit == FirstTarget(W, p, targets)
           W0 == [W EXCEPT !.log.skips = W.log.skips \cup
                    {[p |-> p, e |-> e] : e \in SkippedTargets(W, p, targets)}]
       IN IF hit # None THEN HandleTargetCollision(W0, p, hit)
          ELSE IF IsOutOfBounds(W.proj[p]) THEN DeactivateProjectile(W0, p)
          ELSE W0

RECURSIVE CheckCollisions(_, _, _)
\* CollisionManager.checkCollisions
CheckCollisions(W, projectiles, targets) ==
  IF projectiles = <<>> THEN W
  ELSE CheckCollisions(CheckProjectile(W, Head(projectiles), targets),
                       Tail(projectiles), targets)

\* CollisionDetector.getCollisionTargets: the entities of the scene, in
\* traversal order
GetCollisionTargets(W) == SelectSeq(Entities, LAMBDA e : W.ent[e].inScene)

\* MedievalSiegeSimulator.getActiveProjectiles
GetActiveProjectiles(W) == SelectSeq(Projectiles, LAMBDA p : IsFlying(W.proj[p]))

\* CollisionManager.dispatchDestructionEvent without its event
DispatchNothing(W, e) == W

\* CollisionManager.dispatchDestructionEvent: the event "targetDestroyed"
\* with detail {type, position, userData}; userData is the entity's own
\* object, named here by the entity.
DispatchDestructionEvent(W, e) ==
  [W EXCEPT !.log.events[e] = W.log.events[e] + 1,
            !.log.details = W.log.details \cup
               {[type |-> EntityType(e), position |-> EntityPos(e),
                 userData |-> e]}]

\* destroyTarget calls createDestructionDebris for the entity, and with it
\* EffectsManager.animateDebris at least twice
HasDebris(e) == EntityType(e) \in {"wall", "tower", "siegeTower", "barrel"}

\* CollisionManager.destroyTarget after its effect: the debris, the removal
\* from the scene and the notification (nothing of it when animateDebris
\* throws: destroyTarget rejects, and with it the hit handler that awaits
\* it);
\* scene and the notification; p is the projectile whose hit handler awaits
\* the destruction (it is deactivated next), or None.
FinishDestroy(W, e, p) ==
  LET W1 == DispatchDestructionEvent([W EXCEPT !.ent[e].inScene = FALSE], e)
  IN IF HasDebris(e) /\ Throws THEN W
     ELSE IF p = None THEN W1 ELSE DeactivateProjectile(W1, p)

\* CollisionManager.destroyTarget up to its await.  The wrappers it is
\* given come from getCollisionTargets and carry no `explosive` field, so
\* a barrel takes the wood branch.  Types without an effect finish at once.
DestroyTarget(W, e, p) ==
  IF HasDebris(e)
  THEN AddTask(W, Task("destroySound", e, p, 0))
  ELSE FinishDestroy(W, e, p)

\* Math.random() in thousandths, and the delay 100 + Math.random() * 200 of
\* handleChainReaction in microseconds
RandomSamples == {0, 999}
\* a delay drawn from [100, 301) ms
ChainDelayWide(r) == 100000 + r * 201
ChainDelay(r) == 100000 + r * 200

RECURSIVE ScanBarrels(_, _, _, _)
\* handleChainReaction's loop over scene.children: every other barrel of
\* the scene within the radius that is not exploding is flagged and gets a
\* detonation timer.
ScanBarrels(W, b, children, rnd) ==
  IF children = <<>> THEN W
  ELSE LET c == Head(children)
           near == /\ EntityType(c) = "barrel"
                   /\ c # b
                   /\ ~W.ent[c].isExploding
                   /\ W.ent[c].inScene
                   /\ Dist2(EntityPos(b), EntityPos(c)) < 800 * 800
           W1 == IF near
                 THEN AddTask([W EXCEPT !.ent[c].isExploding = TRUE],
                              Task("chainTimer", c, None, ChainDelay(rnd[c])))
                 ELSE W
       IN ScanBarrels(W1, b, Tail(children), rnd)

\* DamageHandler.applyDamageVisuals reaches createDamageParticles for the
\* target: a damaged mesh with a material (a barrel; the siege tower is a
\* Group without one, and the ground is not damaged)
HasDamageVisuals(b, e) ==
  /\ EntityType(e) = "barrel"
  /\ Dist2(EntityPos(b), EntityPos(e)) < 800 * 800

\* the targets explosionDamage gets through: all of them, or those up to
\* the first whose damage visuals throw
DamagedBeforeThrow(b, targets) ==
  IF Throws /\ \E i \in 1..Len(targets) : HasDamageVisuals(b, targets[i])
  THEN SubSeq(targets, 1,
              CHOOSE i \in 1..Len(targets) :
                /\ HasDamageVisuals(b, targets[i])
                /\ \A j \in 1..(i - 1) : ~HasDamageVisuals(b, targets[j]))
  ELSE targets

\* explosionDamage returns its verdicts (it does not throw)
ExplosionDamageReturns(b, targets) ==
  ~(Throws /\ \E i \in 1..Len(targets) : HasDamageVisuals(b, targets[i]))

\* DamageHandler.explosionDamage centred on barrel b: the entities after it
ExplosionDamage(W, b, targets) ==
  LET reached == DamagedBeforeThrow(b, targets)
  IN [W EXCEPT !.ent = [e \in EntitySet |->
       IF \E i \in 1..Len(reached) : reached[i] = e
       THEN ExplosionDamageOne(W.ent[e], EntityType(e),
                               Dist2(EntityPos(b), EntityPos(e)))
       ELSE W.ent[e]]]

RECURSIVE DestroyAll(_, _)
DestroyAll(W, destroyed) ==
  IF destroyed = <<>> THEN W
  ELSE DestroyAll(DestroyTarget(W, Head(destroyed), None), Tail(destroyed))

\* CollisionManager.handleChainReaction after the chain-reaction sound: the
\* scan, the area damage and the destruction of what it reports destroyed
\* (of nothing, when explosionDamage throws).
HandleChainReaction(W, b, rnd) ==
  LET W1 == ScanBarrels(W, b, Entities, rnd)
      targets == GetCollisionTargets(W1)
      W2 == ExplosionDamage(W1, b, targets)
      destroyed == SelectSeq(targets, LAMBDA e :
                     ExplosionDestroys(W1.ent[e], EntityType(e),
                                       Dist2(EntityPos(b), EntityPos(e))))
      W3 == IF ExplosionDamageReturns(b, targets)
            THEN DestroyAll(W2, destroyed) ELSE W2
  IN [W3 EXCEPT !.log.scans[b] = W.log.scans[b] + 1]

\* --------------------------------------------------------------- Ammunition
\* barrel.userData.onExplode
OnExplode(W, b) ==
  IF W.ent[b].inScene /\ ~W.ent[b].isExploding
  THEN TriggerBarrelExplosion([W EXCEPT !.ent[b].isExploding = TRUE], b)
  ELSE W

RECURSIVE AmmoBarrelLoop(_, _, _)
\* the loop of Ammunition.checkCollisions over this.barrels
AmmoBarrelLoop(W, p, barrels) ==
  IF barrels = <<>> THEN W
  ELSE LET b == Head(barrels)
           W1 ==
             IF ~W.ent[b].inScene \/ W.ent[b].isExploding THEN W
             ELSE IF Dist2(W.proj[p], EntityPos(b)) < 150 * 150
             THEN LET Wa == [W EXCEPT
                               !.proj[p].inScene = FALSE,
                               !.proj[p].hasCollided = TRUE,
                               !.log.hits = W.log.hits \cup
                                 {[p |-> p, e |-> b, via |-> "ammunition",
                                   exploding |-> W.ent[b].isExploding]},
                               !.log.hitCount[p] = W.log.hitCount[p] + 1]
                  IN IF ~Wa.ent[b].isExploding
                     THEN OnExplode([Wa EXCEPT !.ent[b].isExploding = TRUE], b)
                     ELSE Wa
             ELSE W
       IN AmmoBarrelLoop(W1, p, Tail(barrels))

\* Ammunition.checkCollisions(projectile)
AmmoCheckCollisions(W, p) ==
  LET kept == {b \in W.ammo : /\ W.ent[b].inScene
                              /\ ~W.ent[b].isExploding
                              /\ ~W.ent[b].isDragging}
      W1 == [W EXCEPT !.ammo = kept]
  IN AmmoBarrelLoop(W1, p, SelectSeq(Entities, LAMBDA e : e \in kept))

RECURSIVE AmmoUpdate(_, _)
\* Ammunition.update: every flying projectile found is checked
AmmoUpdate(W, projectiles) ==
  IF projectiles = <<>> THEN W
  ELSE AmmoUpdate(AmmoCheckCollisions(W, Head(projectiles)), Tail(projectiles))

\* PhysicsEngine.update over the scene.  Its stop branch is the one place
\* that calls userData.onCollision with final: true (log.finalCalls; the
\* callback is the one fire() sets 100 ms after the release).
PhysicsUpdate(W) ==
  [W EXCEPT
     !.proj = [p \in ProjectileSet |->
                 IF IsFlying(W.proj[p]) THEN PhysicsStep(W.proj[p]) ELSE W.proj[p]],
     !.log.groundStops = [p \in ProjectileSet |->
                 IF IsFlying(W.proj[p]) /\ ~PhysicsStep(W.proj[p]).active
                 THEN W.log.groundStops[p] + 1 ELSE W.log.groundStops[p]],
     !.log.finalCalls = [p \in ProjectileSet |->
                 IF IsFlying(W.proj[p]) /\ ~PhysicsStep(W.proj[p]).active
                 THEN W.log.finalCalls[p] + 1 ELSE W.log.finalCalls[p]]]

\* ------------------------------------------------------------------ actions
\* No task is running and no continuation is queued: the event loop takes
\* the next frame, timer, settled promise or input event.
LoopIdle == microtasks = <<>>

TakeTask(W, t) == [W EXCEPT !.tasks = W.tasks (-) SetToBag({t})]
Pending(kind) == {t \in BagToSet(tasks) : t.k = kind}

\* CollisionManager.showDamageIndication and what handleTargetCollision
\* does after it for projectile p: the indication ends with
\* EffectsManager.createDamageParticles; if that throws, handleTargetCollision
\* rejects and deactivateProjectile is not reached.
ShowDamageIndication(W, p) ==
  IF Throws THEN W ELSE DeactivateProjectile(W, p)

\* CollisionManager.shouldDestroyTarget
ShouldDestroyTarget(t) == t.health <= 0

\* CollisionManager.handleTargetCollision after `await handleImpactEffects`
HitContinuation(W, p, e) ==
  IF ShouldDestroyTarget(W.ent[e])
  THEN DestroyTarget(W, e, p)
  ELSE ShowDamageIndication(W, p)

\* animate with physicsEngine.update moved in front of the collision pass
FrameStepsUpdateFirst(W) ==
  LET W1 == PhysicsUpdate(W)
      activeProjectiles == GetActiveProjectiles(W1)
      W2 == IF activeProjectiles # <<>>
            THEN CheckCollisions(W1, activeProjectiles, GetCollisionTargets(W1))
            ELSE W1
      W3 == AmmoUpdate(W2, GetActiveProjectiles(W2))
  IN [world |-> W3,
      steps |-> <<"update">> \o (IF activeProjectiles # <<>>
                                 THEN <<"checkCollisions">> ELSE <<>>)
                \o <<"ammunition">>]

\* The simulation steps of one run of animate, in the order of its body,
\* and the names of the steps run: the collision pass (only when a
\* projectile is active), physicsEngine.update, ammunition.update.
FrameSteps(W) ==
  LET activeProjectiles == GetActiveProjectiles(W)
      W1 == IF activeProjectiles # <<>>
            THEN CheckCollisions(W, activeProjectiles, GetCollisionTargets(W))
            ELSE W
      W2 == PhysicsUpdate(W1)
      W3 == AmmoUpdate(W2, GetActiveProjectiles(W2))
  IN [world |-> W3,
      steps |-> (IF activeProjectiles # <<>> THEN <<"checkCollisions">>
                 ELSE <<>>) \o <<"update", "ammunition">>]

\* MedievalSiegeSimulator.animate: one frame
Animate ==
  /\ LoopIdle
  /\ \E frame \in {FrameSteps(World)} :
       /\ Commit(frame.world)
       /\ frameSteps' = frame.steps
  /\ ticks' = IF GetActiveProjectiles(World) # <<>> THEN ticks + 1 ELSE ticks
  /\ UNCHANGED <<layout, effects, paint, detector, mouseIsDown, mouseDowns, arms, fnVars>>

\* the continuation of a hit handler, run when the frame that queued it ends
RunMicrotask ==
  /\ microtasks # <<>>
  /\ LET m == Head(microtasks)
     IN \E W \in {HitContinuation([World EXCEPT !.micro = Tail(microtasks)],
                                   m.p, m.e)} : Commit(W)
  /\ UNCHANGED <<layout, effects, paint, detector, frameSteps, mouseIsDown, mouseDowns, arms, ticks, fnVars>>

\* the chain-reaction sound settles: handleChainReaction resumes
ChainSoundDone ==
  /\ LoopIdle
  /\ \E t \in Pending("chainSound") : \E rnd \in [Barrels -> RandomSamples] :
       \E W \in {HandleChainReaction(TakeTask(World, t), t.e, rnd)} : Commit(W)
  /\ UNCHANGED <<layout, effects, paint, detector, frameSteps, mouseIsDown, mouseDowns, arms, ticks, fnVars>>

\* the explosion sound settles: triggerBarrelExplosion removes the barrel
ExplosionSoundDone ==
  /\ LoopIdle
  /\ \E t \in Pending("explosionSound") :
       \E W \in {[TakeTask(World, t) EXCEPT !.ent[t.e].inScene = FALSE]} :
         Commit(W)
  /\ UNCHANGED <<layout, effects, paint, detector, frameSteps, mouseIsDown, mouseDowns, arms, ticks, fnVars>>

\* the destruction effect settles: destroyTarget resumes
DestroySoundDone ==
  /\ LoopIdle
  /\ \E t \in Pending("destroySound") :
       \E W \in {FinishDestroy(TakeTask(World, t), t.e, t.p)} : Commit(W)
  /\ UNCHANGED <<layout, effects, paint, detector, frameSteps, mouseIsDown, mouseDowns, arms, ticks, fnVars>>

\* the timer handleChainReaction set for a flagged barrel
ChainTimerFires ==
  /\ LoopIdle
  /\ \E t \in Pending("chainTimer") :
       \E W \in {TakeTask(World, t)} :
         \E W1 \in {IF W.ent[t.e].inScene THEN TriggerBarrelExplosion(W, t.e)
                     ELSE W} : Commit(W1)
  /\ UNCHANGED <<layout, effects, paint, detector, frameSteps, mouseIsDown, mouseDowns, arms, ticks, fnVars>>

\* the timer deactivateProjectile set
RemoveProjectileTimer ==
  /\ LoopIdle
  /\ \E t \in Pending("removeProjectile") :
       \E W \in {[TakeTask(World, t) EXCEPT !.proj[t.p].inScene = FALSE]} :
         Commit(W)
  /\ UNCHANGED <<layout, effects, paint, detector, frameSteps, mouseIsDown, mouseDowns, arms, ticks, fnVars>>

\* the timer armExplosive sets when it arms a barrel
ArmTimerFires ==
  /\ LoopIdle
  /\ \E t \in Pending("armTimer") :
       LET W == TakeTask(World, t)
           b == t.e
       IN Commit(IF W.ent[b].inScene /\ ~W.ent[b].isExploding
                 THEN LET W1 == TriggerBarrelExplosion(
                                  [W EXCEPT !.ent[b].isExploding = TRUE], b)
                      IN IF W1.sel = b THEN [W1 EXCEPT !.sel = None] ELSE W1
                 ELSE W)
  /\ UNCHANGED <<layout, effects, paint, detector, frameSteps, mouseIsDown, mouseDowns, arms, ticks, fnVars>>

\* handleMouseDown, left button over the draggable object e: selectObject
\* selects it and the drag starts.  (The object is held where it is.)
MouseDown(e) ==
  /\ LoopIdle
  /\ mouseDowns < MaxMouseDowns
  /\ ~mouseIsDown
  /\ Draggable(e) /\ ent[e].inScene
  /\ selectedObject' = e
  /\ mouseIsDown' = TRUE
  /\ ent' = [ent EXCEPT ![e].isDragging = TRUE]
  /\ mouseDowns' = mouseDowns + 1
  /\ UNCHANGED <<layout, effects, paint, detector, frameSteps, proj, ammoBarrels, microtasks, tasks, log,
                 arms, ticks, fnVars>>

\* handleMouseUp
MouseUp ==
  /\ LoopIdle
  /\ mouseIsDown
  /\ mouseIsDown' = FALSE
  /\ ent' = IF selectedObject # None
            THEN [ent EXCEPT ![selectedObject].isDragging = FALSE]
            ELSE ent
  /\ UNCHANGED <<layout, effects, paint, detector, frameSteps, proj, selectedObject, ammoBarrels, microtasks,
                 tasks, log, mouseDowns, arms, ticks, fnVars>>

\* handleMouseDown, right button over barrel b: armExplosive toggles
\* `explosive` and, when the barrel is now armed, sets the 200 ms timer
ArmExplosive(b) ==
  /\ LoopIdle
  /\ arms < MaxArms
  /\ ent[b].inScene
  /\ ent' = [ent EXCEPT ![b].explosive = ~ent[b].explosive]
  /\ tasks' = IF ~ent[b].explosive
              THEN tasks (+) SetToBag({Task("armTimer", b, None, 200000)})
              ELSE tasks
  /\ arms' = arms + 1
  /\ UNCHANGED <<layout, effects, paint, detector, frameSteps, proj, selectedObject, mouseIsDown,
                 ammoBarrels, microtasks, log, mouseDowns, ticks, fnVars>>

\* applyDamage called on the drawn input
ApplyDamageCall ==
  /\ ~fnOut.done
  /\ fnOut' = [done |-> TRUE,
               actual |-> ActualDamage(fnIn.type, fnIn.damage),
               target |-> ApplyDamage(fnIn.target, fnIn.type, fnIn.damage)]
  /\ UNCHANGED <<worldVars, fnIn>>

\* Date.now() when the CollisionDetector is constructed, in ms
ConstructedAt == 1000
\* CollisionDetector.cacheTimeout, in ms
CacheTimeout == 100
\* the objects whose boxes are asked for, in scene-traversal order
BoxedObjects == <<"b1", "b2">>
BoxedSet == {BoxedObjects[i] : i \in 1..Len(BoxedObjects)}

\* the CollisionDetector as constructed: an empty cache, lastCacheUpdate = 0
FreshDetector ==
  [now |-> ConstructedAt,
   cache |-> [o \in BoxedSet |-> [has |-> FALSE, computedAt |-> 0]],
   lastCacheUpdate |-> 0,
   returned |-> {}]

\* CollisionDetector.getBoundingBox(object) on the detector D: the cached
\* box if the cache has the object and the last write of the cache (for
\* whichever object) is less than cacheTimeout old; else the box is
\* computed, stored and the time of the write kept.  The box returned is
\* recorded with the time it was computed.
GetBoundingBox(D, o) ==
  IF D.cache[o].has /\ D.now - D.lastCacheUpdate < CacheTimeout
  THEN [D EXCEPT !.returned = D.returned \cup
          {[object |-> o, computedAt |-> D.cache[o].computedAt,
            at |-> D.now, cached |-> TRUE]}]
  ELSE [D EXCEPT !.cache[o] = [has |-> TRUE, computedAt |-> D.now],
                 !.lastCacheUpdate = D.now,
                 !.returned = D.returned \cup
                    {[object |-> o, computedAt |-> D.now, at |-> D.now,
                      cached |-> FALSE]}]

RECURSIVE ScanBoxes(_, _)
\* getCollisionTargets: the traversal asks for the box of every target
ScanBoxes(D, objects) ==
  IF objects = <<>> THEN D
  ELSE ScanBoxes(GetBoundingBox(D, Head(objects)), Tail(objects))

\* time passes
ClockTick ==
  /\ \E dt \in {10, 90} :
       /\ detector.now + dt <= ConstructedAt + MaxClock
       /\ detector' = [detector EXCEPT !.now = detector.now + dt]
  /\ UNCHANGED <<layout, effects, paint, frameSteps, proj, ent, selectedObject, mouseIsDown,
                 ammoBarrels, microtasks, tasks, log, mouseDowns, arms, ticks,
                 fnVars>>

\* getBoundingBox called on one object (checkProjectileTargetCollision)
GetBoundingBoxCall ==
  /\ \E o \in BoxedSet :
       detector' = GetBoundingBox([detector EXCEPT !.returned = {}], o)
  /\ UNCHANGED <<layout, effects, paint, frameSteps, proj, ent, selectedObject, mouseIsDown,
                 ammoBarrels, microtasks, tasks, log, mouseDowns, arms, ticks,
                 fnVars>>

\* getCollisionTargets called by a frame
GetCollisionTargetsCall ==
  /\ detector' = ScanBoxes([detector EXCEPT !.returned = {}], BoxedObjects)
  /\ UNCHANGED <<layout, effects, paint, frameSteps, proj, ent, selectedObject, mouseIsDown,
                 ammoBarrels, microtasks, tasks, log, mouseDowns, arms, ticks,
                 fnVars>>

\* CollisionDetector.clearCache (resetScene)
ClearCache ==
  /\ detector' = [detector EXCEPT
                    !.cache = [o \in BoxedSet |->
                                 [has |-> FALSE, computedAt |-> 0]],
                    !.returned = {}]
  /\ UNCHANGED <<layout, effects, paint, frameSteps, proj, ent, selectedObject, mouseIsDown,
                 ammoBarrels, microtasks, tasks, log, mouseDowns, arms, ticks,
                 fnVars>>

\* explosionDamage called on the drawn input: one target at the drawn
\* distance from the centre
ExplosionDamageCall ==
  /\ ~fnOut.done
  /\ fnOut' = [done |-> TRUE,
               target |-> ExplosionDamageTarget(fnIn.target, fnIn.type,
                            fnIn.distance * fnIn.distance, fnIn.radius,
                            fnIn.maxDamage),
               destroyed |-> ExplosionVerdict(fnIn.target, fnIn.type,
                               fnIn.distance * fnIn.distance, fnIn.radius,
                               fnIn.maxDamage)]
  /\ UNCHANGED <<worldVars, fnIn>>

\* the drawn target is hit by a projectile (handleTargetCollision calls
\* applyDamage) or reached by an explosion (explosionDamage), as drawn
DamageCall ==
  /\ ~fnOut.done
  /\ fnOut' =
       [done |-> TRUE,
        target |->
          IF fnIn.call = "hit"
          THEN ApplyDamage(fnIn.target, fnIn.type, fnIn.damage)
          ELSE ExplosionDamageTarget(fnIn.target, fnIn.type,
                 fnIn.distance * fnIn.distance, fnIn.radius, fnIn.maxDamage)]
  /\ UNCHANGED <<worldVars, fnIn>>

\* the drawn target, which has no health yet, is damaged for the first
\* time: by a projectile hit (hit), or by an explosion (blast)
FirstDamageCall ==
  /\ ~fnOut.done
  /\ fnOut' =
       [done |-> TRUE,
        hit |-> ApplyDamage(fnIn.target, fnIn.type, fnIn.damage),
        blast |-> ExplosionDamageTarget(fnIn.target, fnIn.type,
                    fnIn.distance * fnIn.distance, 800, 150)]
  /\ UNCHANGED <<worldVars, fnIn>>

\* isOutOfBounds called on the drawn input
IsOutOfBoundsCall ==
  /\ ~fnOut.done
  /\ fnOut' = [done |-> TRUE,
               out |-> IsOutOfBoundsAt(fnIn.position, fnIn.bounds)]
  /\ UNCHANGED <<worldVars, fnIn>>

\* ----------------------------------------------------------- initial states
\* userData of an entity as its constructor leaves it: no health fields
FreshTarget ==
  [hasHealth |-> FALSE, health |-> 0, hasMaxHealth |-> FALSE, maxHealth |-> 0]

FreshEntity ==
  [inScene |-> TRUE, isDragging |-> FALSE, isExploding |-> FALSE,
   explosive |-> FALSE, hasHealth |-> FALSE, health |-> 0,
   hasMaxHealth |-> FALSE, maxHealth |-> 0]

\* the projectile on the arm of the catapult, before its release
Loaded ==
  [x |-> 0, y |-> 300, vx |-> 0, vy |-> 0, bounces |-> 0, active |-> FALSE,
   hasCollided |-> FALSE, inScene |-> TRUE]

\* ------------------------------------------------------------ Damage tints
\* The meshes that carry a colour: each barrel is one mesh, the siege tower
\* is a Group whose child meshes use the three shared materials
PaintedSet == {"st", "b1", "b2"}
MeshIds == {"b1", "b2", "st_wood", "st_stone", "st_metal"}
SharedMaterials == {"wood", "stone", "metal"}
MaterialIds == SharedMaterials \cup {"own_b1", "own_b2"}
MeshesOf(e) ==
  IF EntityType(e) = "siegeTower" THEN {"st_wood", "st_stone", "st_metal"}
  ELSE {e}
IsGroup(e) == EntityType(e) = "siegeTower"
\* the material a clone() of the mesh's material creates
CloneOf(k) == IF k = "b1" THEN "own_b1" ELSE "own_b2"

\* a colour: a hex value moved toward red by so many thousandths
Hex(h) == [hex |-> h, red |-> 0]
Lerp(c, strength) ==
  [c EXCEPT !.red = c.red + ((1000 - c.red) * strength) \div 1000]
NoColour == [defined |-> FALSE, c |-> Hex("ffffff")]

FreshPaint ==
  [material |-> [k \in MeshIds |->
                   CASE k = "st_stone" -> "stone"
                     [] k = "st_metal" -> "metal"
                     [] OTHER -> "wood"],
   colour |-> [m \in MaterialIds |-> Hex("ffffff")],
   hasClonedMaterialForDamageState |-> [k \in MeshIds |-> FALSE],
   originalMaterialBaseColorHex |-> [k \in MeshIds |-> NoColour],
   resets |-> {},      \* pending 200 ms timers, each with its saved colours
   calls |-> 0,        \* tints applied so far
   tinted |-> None]    \* the target of the last tint

\* healthPercent in percent
GetDamageColor(healthPercent) ==
  IF healthPercent > 70 THEN Hex("ffcccc")
  ELSE IF healthPercent > 30 THEN Hex("ff6666")
  ELSE Hex("ff0000")

\* showDamageIndication: the colour of the material of every mesh of the
\* target is saved and set, and a timer is set to put the saved colours back
ShowDamageTint(P, e, healthPercent) ==
  LET meshesToChange == MeshesOf(e)
      originalColors ==
        {[mesh |-> k, c |-> P.colour[P.material[k]]] : k \in meshesToChange}
      changed == {P.material[k] : k \in meshesToChange}
      color == GetDamageColor(healthPercent)
  IN [P EXCEPT
        !.colour = [m \in MaterialIds |->
                      IF m \in changed THEN color ELSE P.colour[m]],
        !.resets = IF Throws THEN P.resets
                   ELSE P.resets \cup {originalColors},
        !.calls = P.calls + 1,
        !.tinted = e]

\* the timer of showDamageIndication: each mesh's material, as it is now,
\* gets the colour saved for the mesh
SavedFor(originalColors, P, m) ==
  {s \in originalColors : P.material[s.mesh] = m}
ResetTint(P, originalColors) ==
  [P EXCEPT
     !.colour = [m \in MaterialIds |->
                   IF SavedFor(originalColors, P, m) = {} THEN P.colour[m]
                   ELSE (CHOOSE s \in SavedFor(originalColors, P, m) : TRUE).c],
     !.resets = P.resets \ {originalColors}]

\* applyDamageVisuals: a mesh that still has no material of its own gets a
\* clone, and the clone is tinted from the colour first captured; a Group
\* has no material and is left alone
ApplyDamageVisuals(P, e, healthPercent) ==
  LET mesh == e
      global == P.material[mesh] \in SharedMaterials
      needsCloning == \/ ~P.hasClonedMaterialForDamageState[mesh]
                      \/ global
      captured ==
        IF P.hasClonedMaterialForDamageState[mesh] /\ ~global
          THEN P.originalMaterialBaseColorHex[mesh]
        ELSE IF ~P.hasClonedMaterialForDamageState[mesh]
                /\ P.originalMaterialBaseColorHex[mesh].defined
          THEN P.originalMaterialBaseColorHex[mesh]
        ELSE [defined |-> TRUE, c |-> P.colour[P.material[mesh]]]
      material == IF needsCloning THEN CloneOf(mesh) ELSE P.material[mesh]
      cloned == IF needsCloning
                THEN [P.colour EXCEPT ![material] = P.colour[P.material[mesh]]]
                ELSE P.colour
      tintStrength == ((100 - healthPercent) * 7)
      baseColorForTint == IF healthPercent < 100
                          THEN Lerp(captured.c, tintStrength)
                          ELSE captured.c
  IN IF IsGroup(e) THEN P
     ELSE [P EXCEPT
             !.material[mesh] = material,
             !.hasClonedMaterialForDamageState[mesh] = TRUE,
             !.originalMaterialBaseColorHex[mesh] = captured,
             !.colour = [cloned EXCEPT ![material] = baseColorForTint],
             !.calls = P.calls + 1,
             !.tinted = e]

\* the health left to a target that is tinted, in percent
IndicationSamples == {90, 50, 10}
VisualsSamples == {100, 50, 0}

\* a direct hit the target survives
ShowDamageIndicationCall ==
  /\ paint.calls < MaxTints
  /\ \E e \in PaintedSet : \E healthPercent \in IndicationSamples :
       paint' = ShowDamageTint(paint, e, healthPercent)
  /\ UNCHANGED <<layout, effects, detector, frameSteps, proj, ent,
                 selectedObject, mouseIsDown, ammoBarrels, microtasks, tasks,
                 log, mouseDowns, arms, ticks, fnVars>>

\* 200 ms after a hit
TintResetFires ==
  /\ \E originalColors \in paint.resets :
       paint' = ResetTint(paint, originalColors)
  /\ UNCHANGED <<layout, effects, detector, frameSteps, proj, ent,
                 selectedObject, mouseIsDown, ammoBarrels, microtasks, tasks,
                 log, mouseDowns, arms, ticks, fnVars>>

\* an explosion reaches the target
ApplyDamageVisualsCall ==
  /\ paint.calls < MaxTints
  /\ \E e \in PaintedSet : \E healthPercent \in VisualsSamples :
       paint' = ApplyDamageVisuals(paint, e, healthPercent)
  /\ UNCHANGED <<layout, effects, detector, frameSteps, proj, ent,
                 selectedObject, mouseIsDown, ammoBarrels, microtasks, tasks,
                 log, mouseDowns, arms, ticks, fnVars>>

NoCall == [type |-> "ground", damage |-> 0, target |-> FreshTarget]
NoResult == [done |-> FALSE, actual |-> 0, target |-> FreshTarget]

InitSetup(scene, fx, projectiles, barrels) ==
  /\ layout = scene
  /\ effects = fx
  /\ detector = FreshDetector
  /\ paint = FreshPaint
  /\ frameSteps = <<>>
  /\ proj = projectiles
  /\ ent = [e \in EntitySet |-> FreshEntity]
  /\ selectedObject = None
  /\ mouseIsDown = FALSE
  /\ ammoBarrels = barrels
  /\ microtasks = <<>>
  /\ tasks = EmptyBag
  /\ log = [trig |-> [e \in EntitySet |-> 0], scans |-> [e \in EntitySet |-> 0],
            events |-> [e \in EntitySet |-> 0], details |-> {}, hits |-> {},
            skips |-> {}, lowOutside |-> {},
            groundStops |-> [p \in ProjectileSet |-> 0],
            finalCalls |-> [p \in ProjectileSet |-> 0],
            hitCount |-> [p \in ProjectileSet |-> 0]]
  /\ mouseDowns = 0
  /\ arms = 0
  /\ ticks = 0

InitScene(scene, projectiles, barrels) ==
  InitSetup(scene, "working", projectiles, barrels)

InitWorld(projectiles, barrels) == InitScene("spread", projectiles, barrels)

\* A shot in the air, a frame before it comes down on its target: at 10 m/s
\* onto barrel b1, or at 30 m/s onto the siege tower.
Shots ==
  {[p1 |-> Advance(Release(850, 300, 1000), 45), p2 |-> Loaded],
   [p1 |-> Advance(Release(-7500, 300, 3000), 126), p2 |-> Loaded]}

Init ==
  /\ \E s \in Shots : InitWorld(s, Barrels)
  /\ fnIn = NoCall
  /\ fnOut = NoResult

\* One shot from its release to its removal, nobody touching the mouse:
\* from behind the barrels over open ground at 10 to 30 m/s (the range of
\* Utils.calculateCatapultPower), or at 10 m/s onto barrel b1.
Launches ==
  {Release(3000, 300, 1000), Release(3000, 300, 1500),
   Release(3000, 300, 2000), Release(3000, 300, 2500),
   Release(3000, 300, 3000), Release(850, 300, 1000)}

\* Shots at 10 and 20 m/s that come down at the edge of the world, 100 m
\* out: the first two reach the edge on the ground, the third in the air
EdgeLaunches ==
  {Release(8260, 300, 1000), Release(3840, 300, 2000),
   Release(9000, 300, 1000)}

InitEdge ==
  /\ \E q \in EdgeLaunches : InitWorld([p1 |-> q, p2 |-> Loaded], Barrels)
  /\ fnIn = NoCall
  /\ fnOut = NoResult

InitFlight ==
  /\ \E q \in Launches : InitWorld([p1 |-> q, p2 |-> Loaded], Barrels)
  /\ fnIn = NoCall
  /\ fnOut = NoResult

\* The barrels side by side, and a shot a frame before it comes down
\* between them: at 10 m/s, or at 15 m/s.
CloseShots ==
  {[p1 |-> Advance(Release(1070, 300, 1000), 44), p2 |-> Loaded],
   [p1 |-> Advance(Release(-190, 300, 1500), 64), p2 |-> Loaded]}

InitClose ==
  /\ \E s \in CloseShots : InitScene("close", s, Barrels)
  /\ fnIn = NoCall
  /\ fnOut = NoResult

\* The shots of Init, with an EffectsManager whose calls work or throw.
InitFault ==
  /\ \E s \in Shots : \E fx \in {"working", "failing"} :
       InitSetup("spread", fx, s, Barrels)
  /\ fnIn = NoCall
  /\ fnOut = NoResult

\* the inputs applyDamage is checked on
ApplyInputs ==
  {[type |-> ty, damage |-> 433 * k, target |-> t] :
     ty \in {"wall", "tower", "siegeTower", "barrel", "ground"},
     k \in 0..MaxDamageSteps,
     t \in {FreshTarget} \cup
           {[hasHealth |-> TRUE, health |-> 500 * h, hasMaxHealth |-> TRUE,
             maxHealth |-> Max(500 * h, 2000)] : h \in 0..MaxHealthSteps}}

InitApply ==
  /\ InitWorld([p1 |-> Loaded, p2 |-> Loaded], Barrels)
  /\ fnIn \in ApplyInputs
  /\ fnOut = NoResult

\* the health fields explosionDamage may find on a target: none, a health
\* with its maximum, or a health alone
HealthSamples ==
  {FreshTarget}
    \cup {[hasHealth |-> TRUE, health |-> 500 * h, hasMaxHealth |-> TRUE,
           maxHealth |-> Max(500 * h, 2000)] : h \in 0..MaxHealthSteps}
    \cup {[hasHealth |-> TRUE, health |-> 500 * h + 67, hasMaxHealth |-> FALSE,
           maxHealth |-> 0] : h \in 0..MaxHealthSteps}

\* the explosions checked: the one of handleChainReaction (radius 8 m, 150
\* points) and a smaller one, at every metre, and a centimetre inside, on and
\* a centimetre outside the radius
ExplosionInputs ==
  {[type |-> ty, target |-> t, distance |-> d, radius |-> e.radius,
    maxDamage |-> e.maxDamage] :
     ty \in {"wall", "siegeTower", "barrel", "stone", "ground"},
     t \in HealthSamples,
     d \in {100 * k : k \in 0..MaxDistance} \cup {399, 401, 799, 801},
     e \in {[radius |-> 800, maxDamage |-> 150],
            [radius |-> 400, maxDamage |-> 100]}}

InitExplosion ==
  /\ InitWorld([p1 |-> Loaded, p2 |-> Loaded], Barrels)
  /\ fnIn \in ExplosionInputs
  /\ fnOut = NoResult

\* userData whose maxHealth is not positive while a health is set: values
\* no code of the simulator writes, put there from outside (explosionDamage
\* itself provides for a health that "was set (e.g. loaded)")
DegenerateTargets ==
  {[hasHealth |-> TRUE, health |-> 500 * h, hasMaxHealth |-> TRUE,
    maxHealth |-> m] : h \in 1..MaxHealthSteps, m \in {0, -1000}}

\* a hit or an explosion on such a target
DegenerateInputs ==
  {[call |-> "hit", type |-> ty, target |-> t, damage |-> 433 * k,
    distance |-> 0, radius |-> 800, maxDamage |-> 150] :
     ty \in {"wall", "tower", "siegeTower", "barrel", "stone"},
     t \in DegenerateTargets, k \in 1..3}
  \cup
  {[call |-> "explosion", type |-> ty, target |-> t, damage |-> 0,
    distance |-> 100 * d, radius |-> 800, maxDamage |-> 150] :
     ty \in {"wall", "tower", "siegeTower", "barrel", "stone"},
     t \in DegenerateTargets, d \in {0, 4, 9}}

InitDegenerate ==
  /\ InitWorld([p1 |-> Loaded, p2 |-> Loaded], Barrels)
  /\ fnIn \in DegenerateInputs
  /\ fnOut = NoResult

\* the types of the objects of the scene that take damage: those of the two
\* base-health tables, and two more (ammunition.js, torch.js)
DamagedTypes == {"wall", "tower", "siegeTower", "barrel", "stone", "torch"}

\* first damage of either kind, at every damage step and every metre
\* inside the blast radius of 8 m
FirstDamageInputs ==
  {[type |-> ty, target |-> FreshTarget, damage |-> 433 * k,
    distance |-> 100 * d] :
     ty \in DamagedTypes, k \in 0..MaxDamageSteps, d \in 0..7}

InitFirstDamage ==
  /\ InitWorld([p1 |-> Loaded, p2 |-> Loaded], Barrels)
  /\ fnIn \in FirstDamageInputs
  /\ fnOut = NoResult

\* the bounds isOutOfBounds is checked on: none given (the defaults), the
\* world bounds of checkCollisions, and a box away from the origin
OffsetBounds ==
  [x |-> [min |-> 200, max |-> 700], y |-> [min |-> -300, max |-> -100],
   z |-> [min |-> 0, max |-> 100]]

BoundsSamples == {NoBounds, GivenBounds(WorldBounds), GivenBounds(OffsetBounds)}

\* the coordinates checked on one axis: on each edge, 1 cm and whole units
\* beyond it, inside, and an invalid number
CoordSamples(edges) ==
  {Num(edges.min - 100 * k) : k \in 0..MaxBeyond}
    \cup {Num(edges.max + 100 * k) : k \in 0..MaxBeyond}
    \cup {Num(edges.min - 1), Num(edges.max + 1),
          Num((edges.min + edges.max) \div 2), NaN}

BoundsInputs ==
  UNION {{[position |-> [x |-> cx, y |-> cy, z |-> cz], bounds |-> b] :
            cx \in CoordSamples((IF b.given THEN b.box ELSE DefaultBounds).x),
            cy \in CoordSamples((IF b.given THEN b.box ELSE DefaultBounds).y),
            cz \in CoordSamples((IF b.given THEN b.box ELSE DefaultBounds).z)} :
         b \in BoundsSamples}

InitBounds ==
  /\ InitWorld([p1 |-> Loaded, p2 |-> Loaded], Barrels)
  /\ fnIn \in BoundsInputs
  /\ fnOut = NoResult

\* ----------------------------------------------------------- specifications
\* Over open ground no target is hit, so no hit handler, sound or chain
\* timer is ever pending: the frames and the removal timer are all that runs.
NextFlight ==
  \/ Animate
  \/ RemoveProjectileTimer

\* The user drags objects during the MaxTicks frames in which the shot
\* comes down; timers and sounds still pending after them run to their end.
NextDrag ==
  \/ ticks < MaxTicks /\ Animate
  \/ RunMicrotask
  \/ ChainSoundDone
  \/ ExplosionSoundDone
  \/ DestroySoundDone
  \/ ChainTimerFires
  \/ RemoveProjectileTimer
  \/ \E e \in EntitySet : MouseDown(e)
  \/ MouseUp

\* ... and arms barrels
Next ==
  \/ NextDrag
  \/ ArmTimerFires
  \/ \E b \in Barrels : ArmExplosive(b)

Spec == Init /\ [][Next]_vars
SpecDrag == Init /\ [][NextDrag]_vars
SpecFlight == InitFlight /\ [][NextFlight]_vars
SpecEdge == InitEdge /\ [][NextFlight]_vars
SpecClose == InitClose /\ [][NextDrag]_vars
SpecFault == InitFault /\ [][NextDrag]_vars
SpecApply == InitApply /\ [][ApplyDamageCall]_vars
SpecBounds == InitBounds /\ [][IsOutOfBoundsCall]_vars
SpecExplosion == InitExplosion /\ [][ExplosionDamageCall]_vars
SpecDegenerate == InitDegenerate /\ [][DamageCall]_vars
SpecFirstDamage == InitFirstDamage /\ [][FirstDamageCall]_vars

\* The box cache alone: calls of getBoundingBox at any times
NextCache ==
  \/ ClockTick
  \/ GetBoundingBoxCall
  \/ GetCollisionTargetsCall
  \/ ClearCache

InitCache ==
  /\ InitWorld([p1 |-> Loaded, p2 |-> Loaded], Barrels)
  /\ fnIn = NoCall
  /\ fnOut = NoResult

SpecCache == InitCache /\ [][NextCache]_vars

\* The damage tints alone: hits and explosions on the tower and the barrels
NextTint ==
  \/ ShowDamageIndicationCall
  \/ TintResetFires
  \/ ApplyDamageVisualsCall

InitTint ==
  /\ InitWorld([p1 |-> Loaded, p2 |-> Loaded], Barrels)
  /\ fnIn = NoCall
  /\ fnOut = NoResult

SpecTint == InitTint /\ [][NextTint]_vars

\* a continuation, a settled sound promise or a due timer is run
Handlers ==
  \/ RunMicrotask
  \/ ExplosionSoundDone
  \/ DestroySoundDone
  \/ ChainTimerFires
  \/ RemoveProjectileTimer
  \/ ChainSoundDone

\* The event loop never stops while a continuation is queued, a sound
\* promise has settled or a timer is due: it runs one of them.
LoopFairness == WF_vars(Handlers)

FairDrag == SpecDrag /\ LoopFairness
FairFlight == SpecFlight /\ LoopFairness

\* ---------------------------------------------------------------- properties
\* SpecFlight leaves out the handlers of hits, sounds and chain timers:
\* none of them is ever pending in it.
FlightQuiet ==
  /\ microtasks = <<>>
  /\ \A t \in BagToSet(tasks) : t.k = "removeProjectile"

\* C1: for every target that has a health value h >= 0 (0 included) and
\* every damage d >= 0, applyDamage returns the non-negative amount
\* a = d * (1 - resistance(type)) and leaves the health at max(0, h - a).
C1_ApplyDamageContract ==
  (fnOut.done /\ fnIn.target.hasHealth) =>
    /\ fnOut.actual >= 0
    /\ 10 * fnOut.actual <= fnIn.damage * (10 - GetTargetResistance(fnIn.type))
    /\ 10 * fnOut.actual > fnIn.damage * (10 - GetTargetResistance(fnIn.type)) - 10
    /\ fnOut.target.health = Max(0, fnIn.target.health - fnOut.actual)

\* C1 holds on the targets whose health is above 0 ...
C1_PositiveHealth ==
  (fnOut.done /\ fnIn.target.hasHealth /\ fnIn.target.health > 0) =>
    fnOut.target.health = Max(0, fnIn.target.health - fnOut.actual)

\* ... and fails on health 0, which `!health` takes for a missing value
C1_ZeroHealthReset ==
  /\ fnOut.done
  /\ fnIn.target.hasHealth /\ fnIn.target.health = 0
  /\ fnOut.target.health = GetBaseHealth(fnIn.type) - fnOut.actual
  /\ fnOut.target.health > 0


C4_DetonatesAtMostOnce ==
  \A b \in Barrels : log.trig[b] <= 1 /\ log.scans[b] <= 1

\* the scan and area-damage pass of one barrel has run twice
C4_ScannedTwice == \E b \in Barrels : log.scans[b] >= 2


\* the steps that run the scan and area-damage pass of barrel b
ScanStep(b) == log.scans'[b] = log.scans[b] + 1

C6_NoHitOnExplodingBarrel ==
  \A h \in log.hits :
    (h.via = "manager" /\ EntityType(h.e) = "barrel") => ~h.exploding

\* the collision pass has hit a barrel already flagged, and detonated it
C6_HitOnExplodingBarrel ==
  \E h \in log.hits :
    /\ h.via = "manager" /\ EntityType(h.e) = "barrel" /\ h.exploding
    /\ log.trig[h.e] >= 1


\* the health fields of userData
HealthOf(t) == [f \in HealthFields |-> t[f]]

\* C7: a target with isDragging = true is skipped by the projectile
\* collision check: a tick leaves its health, maxHealth and scene membership
\* unchanged and resolves no projectile against it.
C7_DraggedSkippedByCollisions ==
  [][ticks' # ticks =>
       \A e \in EntitySet :
         ent[e].isDragging =>
           /\ HealthOf(ent'[e]) = HealthOf(ent[e])
           /\ ent'[e].inScene = ent[e].inScene
           /\ \A h \in log.hits' \ log.hits : h.e # e]_vars

\* a projectile has passed the collision check while overlapping a dragged
\* target: the target is untouched and the projectile still flies
C7_OverlapSkipped ==
  \E s \in log.skips :
    /\ ent[s.e].isDragging
    /\ ~ent[s.e].hasHealth /\ ent[s.e].inScene
    /\ IsFlying(proj[s.p])


\* C8: a target with isDragging = true is skipped by area damage: an
\* explosion whose radius contains it leaves its health unchanged and does
\* not report it destroyed.
C8_DraggedSkippedByAreaDamage ==
  [][\A b \in Barrels : ScanStep(b) =>
       \A e \in EntitySet :
         (ent[e].isDragging /\ Dist2(EntityPos(b), EntityPos(e)) < 800 * 800)
         => /\ HealthOf(ent'[e]) = HealthOf(ent[e])
            /\ \A t \in BagToSet(tasks') :
                 (t.k = "destroySound" /\ t.e = e)
                 => CopiesIn(t, tasks') = CopiesIn(t, tasks)]_vars

\* C9: while a barrel has isDragging = true no explosion is triggered on it
\* by any path: it is neither detonated nor scheduled for detonation, and
\* its isExploding flag stays false.
C9_DraggedBarrelNotTriggered ==
  [][\A b \in Barrels :
       (ent[b].isDragging /\ ent'[b].isDragging /\ ~ent[b].isExploding)
       => /\ ~ent'[b].isExploding
          /\ log.trig'[b] = log.trig[b]
          /\ \A t \in BagToSet(tasks') :
               (t.k = "chainTimer" /\ t.e = b)
               => CopiesIn(t, tasks') = CopiesIn(t, tasks)]_vars

\* the projectile was resolved against a target
WasHit(p) == \E h \in log.hits : h.p = p

\* C10: a launched projectile that has bounced fewer than 3 times, has hit
\* no target and has not left the world bounds is still active; the ground
\* contact made with bounces = 3 sets active = false and hasCollided = true;
\* this deactivation happens once per projectile, and a projectile that
\* has ended its flight otherwise unhit and inside the bounds has gone
\* through it.
C10_BounceLifecycle ==
  \A p \in ProjectileSet :
    proj[p] # Loaded =>
      /\ (proj[p].bounces < 3 /\ ~WasHit(p) /\ ~IsOutOfBounds(proj[p]))
         => proj[p].active
      /\ (IsFlying(proj[p]) /\ proj[p].bounces = 3
          /\ CheckGroundCollision(proj[p]))
         => LET q == FrameSteps(World).world.proj[p]
            IN ~q.active /\ q.hasCollided
      /\ log.groundStops[p] <= 1
      /\ log.groundStops[p] = 1
         => (proj[p].bounces = 3 /\ ~proj[p].active /\ proj[p].hasCollided)
      /\ (~proj[p].active /\ ~WasHit(p) /\ ~IsOutOfBounds(proj[p]))
         => log.groundStops[p] = 1

\* a projectile stopped by its ground contact after the third bounce
C10_StoppedAfterThirdBounce ==
  \E p \in ProjectileSet :
    /\ proj[p] # Loaded
    /\ proj[p].bounces = 3 /\ ~proj[p].active /\ proj[p].hasCollided
    /\ ~WasHit(p) /\ ~IsOutOfBounds(proj[p])
    /\ log.groundStops[p] = 1


\* the axes of a position
Axes == {"x", "y", "z"}

\* the bounds of a call: the box given, or the defaults
ActiveBounds(bounds) == IF bounds.given THEN bounds.box ELSE DefaultBounds

\* the bounds the call of fnIn is made with
BoundsOfCall == ActiveBounds(fnIn.bounds)

\* every coordinate of the position is a number inside the bounds, the
\* edges included
WithinBounds ==
  \A a \in Axes :
    /\ ~fnIn.position[a].nan
    /\ BoundsOfCall[a].min <= fnIn.position[a].v
    /\ fnIn.position[a].v <= BoundsOfCall[a].max

\* some coordinate of the position is one unit (1 m) or more beyond an edge
BeyondBounds ==
  \E a \in Axes :
    /\ ~fnIn.position[a].nan
    /\ \/ fnIn.position[a].v <= BoundsOfCall[a].min - 100
       \/ fnIn.position[a].v >= BoundsOfCall[a].max + 100

\* C11: isOutOfBounds(position, bounds) is false for every position whose
\* coordinates all lie within the bounds, a coordinate exactly on a min or
\* max edge included, and true for every position with at least one
\* coordinate one unit or more beyond an edge, on any axis, either direction.
C11_OutOfBoundsContract ==
  fnOut.done =>
    /\ WithinBounds => ~fnOut.out
    /\ BeyondBounds => fnOut.out

\* a position with a coordinate exactly on an edge was found inside
C11_OnEdgeInside ==
  /\ fnOut.done
  /\ WithinBounds
  /\ \E a \in Axes : fnIn.position[a].v = BoundsOfCall[a].max
  /\ \E a \in Axes : fnIn.position[a].v = BoundsOfCall[a].min
  /\ ~fnOut.out


\* the targets projectile p is resolved against by the step: the targets of
\* the hits it adds to the history
NewTargets(p) == {h.e : h \in {g \in log.hits' \ log.hits : g.p = p}}

\* C12: within one tick a projectile is resolved against at most one
\* target: once a target is found, no other target is damaged, detonated or
\* flagged by that projectile in the same tick, over both collision passes
\* of the tick (CollisionManager.checkCollisions, Ammunition.checkCollisions).
C12_OneTargetPerTick ==
  [][ticks' # ticks =>
       \A p \in ProjectileSet : Cardinality(NewTargets(p)) <= 1]_vars

\* one projectile has been resolved against both barrels, each flagged
C12_BothBarrelsByOneProjectile ==
  \E p \in ProjectileSet :
    /\ \A b \in Barrels : \E h \in log.hits : h.p = p /\ h.e = b
    /\ \A b \in Barrels : ent[b].isExploding
    /\ ticks = 1

\* no continuation is queued and no timer or sound is pending: the handlers
\* have all run to their end
Settled == microtasks = <<>> /\ tasks = EmptyBag

\* C13: every projectile for which a target hit is registered ends with
\* active = false and hasCollided = true and out of the scene, whether the
\* target survives or is destroyed: once every handler, sound and timer the
\* hit started has run, the projectile is deactivated and removed.
C13_HitProjectileDeactivated ==
  \A p \in ProjectileSet :
    (WasHit(p) /\ Settled)
    => (~proj[p].active /\ proj[p].hasCollided /\ ~proj[p].inScene)

\* a projectile whose hit on a barrel Ammunition.checkCollisions registered:
\* removed and marked collided, and still active when nothing is left to run
C13_RemovedStillActive ==
  \E p \in ProjectileSet :
    /\ \E h \in log.hits : h.p = p /\ h.via = "ammunition"
    /\ Settled
    /\ ~proj[p].inScene /\ proj[p].hasCollided /\ proj[p].active

\* C14: whenever a projectile hit or an explosion leaves the health of a
\* target at or below 0, the target is eventually out of the scene and a
\* destruction event with its type, its position and its userData has been
\* dispatched for it.
C14_DestroyedEventually ==
  \A e \in EntitySet :
    (ent[e].hasHealth /\ ent[e].health <= 0)
    ~> /\ ~ent[e].inScene
       /\ log.events[e] >= 1
       /\ [type |-> EntityType(e), position |-> EntityPos(e), userData |-> e]
            \in log.details

\* a barrel the explosion of its neighbour left without health: removed and
\* notified, no projectile having hit it
C14_BlastDestroyed ==
  \E b \in Barrels :
    /\ ~(\E h \in log.hits : h.e = b)
    /\ ent[b].hasHealth /\ ent[b].health <= 0
    /\ ~ent[b].inScene /\ log.events[b] >= 1
    /\ [type |-> "barrel", position |-> EntityPos(b), userData |-> b]
         \in log.details

\* the health explosionDamage starts from: the one found, or the base
\* health of the type
HealthBefore ==
  IF fnIn.target.hasHealth THEN fnIn.target.health
  ELSE GetBaseHealthForExplosion(fnIn.type)

\* floor(maxDamage * (1 - d / radius)) points, in tenths
FalloffDamage ==
  10 * ((fnIn.maxDamage * (fnIn.radius - fnIn.distance)) \div fnIn.radius)

\* the call damages its target: not the ground, and inside the radius
InBlast == fnIn.type # "ground" /\ fnIn.distance < fnIn.radius

\* C15: explosionDamage lowers the health of every non-ground target at
\* distance d < radius by floor(maxDamage * (1 - d / radius)), clamped at 0
\* (93 points for d = 3, radius = 8, maxDamage = 150), leaves every ground
\* target and every target at d >= radius unchanged, and reports destroyed
\* exactly for a damaged target whose resulting health is <= 0.
C15_ExplosionDamageContract ==
  fnOut.done =>
    /\ InBlast => fnOut.target.health = Max(0, HealthBefore - FalloffDamage)
    /\ ~InBlast => fnOut.target = fnIn.target
    /\ fnOut.destroyed <=> (InBlast /\ fnOut.target.health <= 0)
    /\ (fnIn.distance = 300 /\ fnIn.radius = 800 /\ fnIn.maxDamage = 150)
       => FalloffDamage = 930

\* scenario B: a siege tower of 150 points 3 m from the centre of the
\* explosion of radius 8 m and 150 points is left with 57 points
C15_ScenarioB ==
  /\ fnOut.done
  /\ fnIn.type = "siegeTower"
  /\ fnIn.distance = 300 /\ fnIn.radius = 800 /\ fnIn.maxDamage = 150
  /\ fnIn.target.hasHealth /\ fnIn.target.health = 1500
  /\ fnOut.target.health = 570
  /\ ~fnOut.destroyed

\* C16: getBoundingBox returns a cached box only if the box of that object
\* was computed less than 100 ms before the call: no box it returns, for
\* any calls on several objects at any times, is 100 ms old or older.
C16_NoStaleBox ==
  \A r \in detector.returned : r.at - r.computedAt < CacheTimeout

\* a box returned from the cache although it was computed 100 ms or more
\* before the call
C16_StaleBoxReturned ==
  \E r \in detector.returned :
    r.cached /\ r.at - r.computedAt >= CacheTimeout

C20_HitDetonatesOnlyAtZero ==
  [][\A e \in EntitySet :
       (/\ \E h \in log.hits' \ log.hits : h.e = e /\ h.via = "manager"
        /\ ent'[e].hasHealth /\ ent'[e].health > 0)
       => log.trig'[e] = log.trig[e]]_vars

\* a barrel hit once, left with half its health, detonated by the hit and
\* removed from the scene
C20_SurvivingBarrelDetonated ==
  \E b \in Barrels :
    /\ \E h \in log.hits : h.e = b /\ h.via = "manager"
    /\ ent[b].hasHealth /\ ent[b].health > 0
    /\ log.trig[b] = 1
    /\ log.events[b] = 0
    /\ ~ent[b].inScene

\* C17: a failing sound request or visual-effect call never changes the
\* outcome of the step that issued it: once every handler has run, the hit
\* projectile is deactivated, a target at health <= 0 is removed and
\* notified, and a triggered barrel has run its chain reaction and is
\* removed.
C17_FailureChangesNothing ==
  Settled =>
    /\ \A p \in ProjectileSet :
         (\E h \in log.hits : h.p = p /\ h.via = "manager")
         => (~proj[p].active /\ proj[p].hasCollided)
    /\ \A e \in EntitySet :
         (ent[e].hasHealth /\ ent[e].health <= 0)
         => (~ent[e].inScene /\ log.events[e] >= 1)
    /\ \A b \in Barrels :
         log.trig[b] >= 1 => (log.scans[b] >= 1 /\ ~ent[b].inScene)

\* the effects throwing, the siege tower brought to health 0 by a hit is
\* still in the scene when nothing is left to run, and no destruction event
\* was dispatched for it
C17_DestroyedTargetLeft ==
  /\ Throws
  /\ Settled
  /\ \E h \in log.hits : h.e = "st" /\ h.via = "manager"
  /\ ent["st"].hasHealth /\ ent["st"].health <= 0
  /\ ent["st"].inScene
  /\ log.events["st"] = 0

\* the colours an entity is drawn in, mesh by mesh
ColourOf(P, x) ==
  {[mesh |-> k, c |-> P.colour[P.material[k]]] : k \in MeshesOf(x)}
SharesMaterial(P, x, y) ==
  \E k \in MeshesOf(x) : \E j \in MeshesOf(y) :
    P.material[k] = P.material[j]

\* C19: whenever an entity is tinted, by the indication of a direct hit or by
\* the visuals of explosion damage, every other entity that shared a
\* material with it before the tint keeps its colour, and the tinted entity
\* is on materials of its own
C19_TintLeavesOthers ==
  [][paint'.calls # paint.calls =>
       /\ \A x \in PaintedSet \ {paint'.tinted} :
            SharesMaterial(paint, x, paint'.tinted) =>
              ColourOf(paint', x) = ColourOf(paint, x)
       /\ \A k \in MeshesOf(paint'.tinted) :
            paint'.material[k] \notin SharedMaterials]_vars

\* the indication of a hit on barrel b1 has coloured barrel b2, which was
\* never hit and still uses the shared wood material
C19_NeighbourTinted ==
  /\ paint.calls = 1
  /\ paint.tinted = "b1"
  /\ ~paint.hasClonedMaterialForDamageState["b1"]
  /\ paint.material["b2"] = "wood"
  /\ ColourOf(paint, "b2") = {[mesh |-> "b2", c |-> GetDamageColor(50)]}

\* C21: applyDamage initialises the health of a target to the base value of
\* its type only when the target has no health value; a target that has a
\* health value, 0 included, is not initialised again: its maxHealth stays
\* and its health does not rise.
C21_InitialisedOnlyWhenAbsent ==
  fnOut.done =>
    IF fnIn.target.hasHealth
    THEN /\ fnOut.target.maxHealth = fnIn.target.maxHealth
         /\ fnOut.target.health <= fnIn.target.health
    ELSE /\ fnOut.target.maxHealth = GetBaseHealth(fnIn.type)
         /\ fnOut.target.health =
              Max(0, GetBaseHealth(fnIn.type) - fnOut.actual)

\* a barrel at health 0 of 200 is hit and comes out with the base values of
\* a barrel, as if it had never been hit
C21_ZeroHealthInitialisedAgain ==
  /\ fnOut.done
  /\ fnIn.type = "barrel"
  /\ fnIn.target.hasHealth /\ fnIn.target.health = 0
  /\ fnIn.target.maxHealth = 2000
  /\ fnOut.target.maxHealth = GetBaseHealth("barrel")
  /\ fnOut.target.health = GetBaseHealth("barrel") - fnOut.actual

\* the frame that runs now resolves collisions for projectile p
ResolvedInTick(p) == ticks' = ticks + 1 /\ IsFlying(proj[p])

\* C22: a projectile that is active and outside the world bounds when the
\* collisions of a tick are resolved, and for which no target hit is
\* registered in that tick, is deactivated in that tick (active = false,
\* hasCollided = true), whatever its height.
C22_OutsideDeactivated ==
  [][\A p \in ProjectileSet :
       (/\ ResolvedInTick(p)
        /\ IsOutOfBounds(proj[p])
        /\ NewTargets(p) = {})
         => (~proj'[p].active /\ proj'[p].hasCollided)]_vars

\* a projectile that was outside the bounds at ground height when a tick
\* resolved its collisions is still flying after the tick
C22_OutsideStillFlying ==
  \E p \in log.lowOutside : IsFlying(proj[p]) /\ IsOutOfBounds(proj[p])

\* C23: whenever a projectile has been deactivated by ground contact (it
\* came to rest or had used up its bounces), its velocity is zero and its
\* collision callback has been invoked exactly once with final = true.
C23_GroundStopContract ==
  \A p \in ProjectileSet :
    log.groundStops[p] >= 1 =>
      /\ proj[p].vx = 0 /\ proj[p].vy = 0
      /\ log.finalCalls[p] = 1

\* a projectile stopped on the ground after its third bounce that kept the
\* velocity of the bounce and whose callback never got final = true
C23_StoppedWithVelocity ==
  \E p \in ProjectileSet :
    /\ log.groundStops[p] = 1
    /\ ~proj[p].active /\ proj[p].hasCollided /\ proj[p].bounces = 3
    /\ ~WasHit(p) /\ ~IsOutOfBounds(proj[p])
    /\ proj[p].vx > 0 /\ proj[p].vy > 0
    /\ log.finalCalls[p] = 0

\* destroyTarget is called on entity e in this step: its destruction effect
\* is newly awaited, or (for a type without one) its notification is sent
DestroyCalled(e) ==
  \/ \E p \in ProjectileSet \cup {None} :
       CopiesIn(Task("destroySound", e, p, 0), tasks')
         > CopiesIn(Task("destroySound", e, p, 0), tasks)
  \/ ~HasDebris(e) /\ log.events'[e] > log.events[e]

\* C24: the area damage of a barrel's explosion leaves the barrel itself
\* alone: the pass started by barrel b does not change the health fields of
\* b and does not hand b to destroyTarget.
C24_SourceExcluded ==
  [][\A b \in Barrels :
       ScanStep(b) =>
         /\ HealthOf(ent'[b]) = HealthOf(ent[b])
         /\ ~DestroyCalled(b)]_vars

\* barrel b1, left at 44.7 by the hit that detonated it, has been taken to
\* 0 and handed to destroyTarget by its own area damage, before any other
\* barrel exploded
C24_SourceDestroyedByItself ==
  /\ log.scans["b1"] = 1 /\ log.scans["b2"] = 0
  /\ ent["b1"].hasHealth /\ ent["b1"].health = 0
  /\ ent["b1"].maxHealth = GetBaseHealth("barrel")
  /\ CopiesIn(Task("destroySound", "b1", None, 0), tasks) = 1

C26_ExplosionTableMirrorsHitTable ==
  fnOut.done =>
    IF fnIn.type = "barrel"
    THEN fnOut.blast.maxHealth = 500 /\ fnOut.hit.maxHealth = 1000
    ELSE fnOut.blast.maxHealth = fnOut.hit.maxHealth

\* a stone gets 300 points from its first hit and 100 from its first
\* explosion
C26_StoneTablesDiffer ==
  /\ fnOut.done
  /\ fnIn.type = "stone"
  /\ fnOut.hit.hasMaxHealth /\ fnOut.hit.maxHealth = 3000
  /\ fnOut.blast.hasMaxHealth /\ fnOut.blast.maxHealth = 1000

\* C27: over its whole lifetime a projectile has at most one target hit
\* registered for it, by either collision pass, also while the handler of
\* its hit is still waiting for effects and sounds.
C27_OneHitPerProjectile ==
  \A p \in ProjectileSet : log.hitCount[p] <= 1

\* the siege tower has been hit twice by the same projectile, in two
\* ticks, while the handler of the first hit waits for the destruction
\* effect of the tower
C27_TowerHitTwice ==
  /\ log.hitCount["p1"] = 2
  /\ \A h \in log.hits : h.p = "p1" => (h.e = "st" /\ h.via = "manager")
  /\ CopiesIn(Task("destroySound", "st", "p1", 0), tasks) >= 1
  /\ proj["p1"].active /\ ~proj["p1"].hasCollided

\* C28: every barrel whose isExploding flag is set eventually detonates
\* (triggerBarrelExplosion runs its explosion) and is removed from the
\* scene, whichever path set the flag.
C28_FlaggedEventuallyDetonates ==
  \A b \in Barrels :
    ent[b].isExploding ~> (log.trig[b] >= 1 /\ ~ent[b].inScene)

\* Ammunition.checkCollisions has flagged barrel b1 for a projectile it
\* removed; nothing is pending, and the barrel stands in the scene,
\* flagged and never detonated
C28_FlaggedAndLeft ==
  /\ \E h \in log.hits : h.e = "b1" /\ h.via = "ammunition"
  /\ ent["b1"].isExploding /\ ent["b1"].inScene
  /\ log.trig["b1"] = 0
  /\ Settled

\* C29: the notification targetDestroyed is sent at most once for an
\* entity (destroyTarget, which sends it at its end, runs to its end at
\* most once for an entity), whatever the order of hits, explosions and
\* their handlers.
C29_DestroyedOnce ==
  \A e \in EntitySet : log.events[e] <= 1

\* barrel b2, brought to 0 by the explosion of b1 and again by its own,
\* has been destroyed twice: two notifications, the barrel long gone
C29_BarrelDestroyedTwice ==
  /\ log.events["b2"] = 2
  /\ log.scans["b1"] >= 1 /\ log.scans["b2"] >= 1
  /\ ~ent["b2"].inScene
  /\ \A h \in log.hits : h.e # "b2"

\* C30: in every reachable state a projectile whose hasCollided is true has
\* active = false, whichever path ended its flight.
C30_CollidedImpliesInactive ==
  \A p \in ProjectileSet : proj[p].hasCollided => ~proj[p].active

\* right after the frame in which Ammunition.checkCollisions took it, the
\* projectile has hasCollided = true and active = true
C30_CollidedAndActive ==
  \E p \in ProjectileSet :
    /\ proj[p].hasCollided /\ proj[p].active
    /\ log.hitCount[p] = 1
    /\ \E h \in log.hits : h.p = p /\ h.via = "ammunition"
    /\ log.groundStops[p] = 0

====
